---- MODULE Spec2Model ----
(***************************************************************************)
(* Model of the chat backend (app/routers/chat.py, app/routers/auth.py,    *)
(* app/models.py, app/config.py).                                          *)
(*                                                                         *)
(* The durable state is the four tables of app/models.py.  A commit of a   *)
(* session is one atomic step (SQLite commits a transaction atomically);   *)
(* what a handler does between two commits (selects, object construction,  *)
(* the completion call) are separate steps, so that a process crash can    *)
(* fall between any two of them.  Each request is handled by a process p   *)
(* with a program counter pc[p] and its local variables loc[p].            *)
(*                                                                         *)
(* Encodings: Python None of an Optional[str] is the string NoneStr, None  *)
(* of an Optional[int] is the integer NoneInt.  Strings are TLA+ strings   *)
(* (Len, \o and SubSeq act on them as on Python's len, + and slices).      *)
(* Variables and record fields marked "ghost" are not program state: they  *)
(* record what happened so that the properties can speak about it.         *)
(***************************************************************************)
EXTENDS Integers, Sequences, FiniteSets, TLC

\* ---------------------------------------------------------------- bounds
\* Largest id of a message in the model.
MaxMsgs == 4
\* Largest id of a conversation in the model.
MaxConvs == 1
\* Largest reading of the clock.
MaxClock == 1
\* Largest value of the MAX_CONVERSATION_HISTORY setting in the model.
MaxHistorySetting == 2
\* Largest id of a message where conversations are deleted concurrently.
MaxRaceMsgs == 2
\* Largest id of a conversation, and of a message, where turns run on
\* different conversations.
MaxPairConvs == 2
MaxPairMsgs == 4
\* Largest id of a message where the turns of one conversation run one
\* after the other: three turns.
MaxTurnMsgs == 6

\* ---------------------------------------------------------------- inputs
Procs == {1, 2}
\* Requests are handled one at a time by this process in the serial
\* specifications.
SeqProcs == {1}
Emails == {"a@x.com", "b@x.com"}
ProfileEmails == {"a@x.com"}
LongContent == "0123456789012345678901234567890123456789012345678901234567"
Contents == {"hi", LongContent}
TitleInputs == {"", "Plan"}
ServiceReplies == {"Sure."}
ServiceErrors == {"timeout"}
FieldValues == {"x"}
Passwords == {"pw1"}
LoginPasswords == {"pw1", "pw2"}

\* ---------------------------------------------------------------- encodings
NoneStr == "<None>"
NoneInt == -1

\* Python truthiness of an Optional[int] and of an Optional[str].
TruthyInt(x) == x # NoneInt /\ x # 0
TruthyStr(s) == s # NoneStr /\ s # ""

Max(S) == CHOOSE x \in S : \A y \in S : y <= x
Min2(a, b) == IF a <= b THEN a ELSE b

\* The id a table gives a new row (INTEGER PRIMARY KEY of SQLite: one more
\* than the largest id in use).
NextId(rows) == IF rows = {} THEN 1 ELSE Max({r.id : r \in rows}) + 1

\* app/auth.py is not among the sources: the hash of a password, its
\* verification and the token are modelled by what they are for.  A hash is
\* not its password; a password verifies against its own hash only.
get_password_hash(password) == "hash:" \o password
verify_password(plain_password, hashed_password) ==
    get_password_hash(plain_password) = hashed_password
create_access_token(sub) == [sub |-> sub]

VARIABLES
    users,          \* table user: [id, email, hashed_password, is_active]
    profiles,       \* table user_profile
    conversations,  \* table conversation
    messages,       \* table message
    now,            \* the last reading of datetime.utcnow()
    claude_client,  \* TRUE iff the completion client is configured
    max_history,    \* settings.MAX_CONVERSATION_HISTORY
    pc,             \* pc[p]: where process p is in its handler
    loc,            \* loc[p]: the handler's local variables
    bumps           \* ghost: bumps[c], committed writes of updated_at of conversation c

vars == <<users, profiles, conversations, messages, now, claude_client,
          max_history, pc, loc, bumps>>

store == <<users, profiles, conversations, messages>>

ConvIds == 1..MaxConvs
ProfileFields == {"display_name", "company_name", "phone", "preferences", "notes"}

NoLoc == [op |-> "none"]
NoConv == [id |-> 0, user_id |-> 0, title |-> NoneStr, created_at |-> 0, updated_at |-> 0]
NoMsg == [id |-> 0, conversation_id |-> 0, role |-> "", content |-> "", created_at |-> 0]
NoProfile == [id |-> 0, user_id |-> 0, display_name |-> NoneStr, company_name |-> NoneStr,
              phone |-> NoneStr, preferences |-> NoneStr, notes |-> NoneStr, updated_at |-> 0]

\* A reading of datetime.utcnow(): not before the last reading; two readings
\* may be equal (the clock's resolution).
UtcNow == {t \in {now, now + 1} : t <= MaxClock}

\* The state after construction (database.py 15-17, chat.py 25-29,
\* config.py 36): empty tables, a client or none, a history setting.
Init ==
    /\ users = {}
    /\ profiles = {}
    /\ conversations = {}
    /\ messages = {}
    /\ now = 0
    /\ claude_client \in BOOLEAN
    /\ max_history \in 1..MaxHistorySetting
    /\ pc = [p \in Procs |-> "idle"]
    /\ loc = [p \in Procs |-> NoLoc]
    /\ bumps = [c \in ConvIds |-> 0]

\* The state after construction with the completion client unset and the
\* default-sized history replaced by the smallest one: the profile and
\* registration endpoints read neither.
InitNoChat ==
    /\ Init
    /\ claude_client = FALSE
    /\ max_history = 1

\* The state in which the users of Emails have registered (register_user
\* run once for each, auth.py 23-52) and nothing else has happened.
InitRegistered ==
    /\ users = {[id |-> 1, email |-> "a@x.com", hashed_password |-> get_password_hash("pw1"),
                 is_active |-> TRUE],
                [id |-> 2, email |-> "b@x.com", hashed_password |-> get_password_hash("pw1"),
                 is_active |-> TRUE]}
    /\ profiles = {[NoProfile EXCEPT !.id = 1, !.user_id = 1],
                   [NoProfile EXCEPT !.id = 2, !.user_id = 2]}
    /\ conversations = {}
    /\ messages = {}
    /\ now = 0
    /\ claude_client \in BOOLEAN
    /\ max_history \in 1..MaxHistorySetting
    /\ pc = [p \in Procs |-> "idle"]
    /\ loc = [p \in Procs |-> NoLoc]
    /\ bumps = [c \in ConvIds |-> 0]

\* ---------------------------------------------------------------- results
Ok(code, body) == [status |-> code, detail |-> "", body |-> body]
HttpError(code, detail) == [status |-> code, detail |-> detail, body |-> <<>>]
NotFound == HttpError(404, "Conversation not found")
\* auth.py 32-35: the error of a registration with an email in use.
Conflict == HttpError(400, "Email already registered.")
\* auth.py 65-69 and 72-75: the errors of login.
Unauthorized == HttpError(401, "Incorrect email or password.")
Forbidden == HttpError(403, "User account is disabled.")

\* A request arrives at an idle process.
Begin(p, l, at) ==
    /\ pc[p] = "idle"
    /\ pc' = [pc EXCEPT ![p] = at]
    /\ loc' = [loc EXCEPT ![p] = l]

Goto(p, at, l) ==
    /\ pc' = [pc EXCEPT ![p] = at]
    /\ loc' = [loc EXCEPT ![p] = l]

FinishWith(p, l, res) == Goto(p, "done", [l EXCEPT !.result = res])

Finish(p, res) == FinishWith(p, loc[p], res)

\* The response has been delivered: the process is free again.
Respond(p) ==
    /\ pc[p] = "done"
    /\ pc' = [pc EXCEPT ![p] = "idle"]
    /\ loc' = [loc EXCEPT ![p] = NoLoc]
    /\ UNCHANGED <<store, now, claude_client, max_history, bumps>>

\* The server process stops in the middle of a request: the session and the
\* handler's variables are lost, the committed tables stay.
Crash(p) ==
    /\ pc[p] \notin {"idle", "done"}
    /\ pc' = [pc EXCEPT ![p] = "idle"]
    /\ loc' = [loc EXCEPT ![p] = NoLoc]
    /\ UNCHANGED <<store, now, claude_client, max_history, bumps>>

\* ---------------------------------------------------------------- register_user
\* ghost fields: existing.
register_user_begin(p, email, password) ==
    /\ Begin(p, [op |-> "register_user", email |-> email, password |-> password, user |-> 0,
                 existing |-> FALSE, result |-> Ok(0, <<>>)], "reg_check")
    /\ UNCHANGED <<store, now, claude_client, max_history, bumps>>

\* Faulty variant of register_user_check: the email is not looked up.
register_user_check_absent(p) ==
    /\ pc[p] = "reg_check"
    /\ Goto(p, "reg_user", loc[p])
    /\ UNCHANGED <<store, now, claude_client, max_history, bumps>>

\* auth.py 29-35: the email must be free.
register_user_check(p) ==
    /\ pc[p] = "reg_check"
    /\ IF \E u \in users : u.email = loc[p].email
       THEN FinishWith(p, [loc[p] EXCEPT !.existing = TRUE], Conflict)
       ELSE Goto(p, "reg_user", loc[p])
    /\ UNCHANGED <<store, now, claude_client, max_history, bumps>>

\* auth.py 38-45: insert the user and commit.  The unique index on email
\* refuses a second row with the same email.
register_user_commit_user(p) ==
    /\ pc[p] = "reg_user"
    /\ IF \E u \in users : u.email = loc[p].email
       THEN /\ Finish(p, HttpError(500, "IntegrityError"))
            /\ users' = users
       ELSE LET id == NextId(users) IN
            /\ users' = users \cup {[id |-> id, email |-> loc[p].email,
                                     hashed_password |-> get_password_hash(loc[p].password),
                                     is_active |-> TRUE]}
            /\ Goto(p, "reg_profile", [loc[p] EXCEPT !.user = id])
    /\ UNCHANGED <<profiles, conversations, messages, now, claude_client, max_history, bumps>>

\* auth.py 48-52: insert the empty profile and commit.  The unique index on
\* user_id refuses a second profile of the user.
register_user_commit_profile(p) ==
    /\ pc[p] = "reg_profile"
    /\ \E t \in UtcNow :
        /\ now' = t
        /\ IF \E q \in profiles : q.user_id = loc[p].user
           THEN /\ Finish(p, HttpError(500, "IntegrityError"))
                /\ profiles' = profiles
           ELSE /\ profiles' = profiles \cup
                      {[NoProfile EXCEPT !.id = NextId(profiles), !.user_id = loc[p].user,
                                         !.updated_at = t]}
                /\ Finish(p, Ok(201, [id |-> loc[p].user, email |-> loc[p].email,
                                      is_active |-> TRUE]))
    /\ UNCHANGED <<users, conversations, messages, claude_client, max_history, bumps>>

\* ---------------------------------------------------------------- login
NoUser == [id |-> 0, email |-> "", hashed_password |-> "", is_active |-> FALSE]

login_begin(p, email, password) ==
    /\ Begin(p, [op |-> "login", email |-> email, password |-> password, found |-> FALSE,
                 user |-> NoUser, result |-> Ok(0, <<>>)], "login_select")
    /\ UNCHANGED <<store, now, claude_client, max_history, bumps>>

\* auth.py 61-62: the user with the email, if any.
login_select(p) ==
    /\ pc[p] = "login_select"
    /\ LET found == {u \in users : u.email = loc[p].email}
       IN Goto(p, "login_verify",
               [loc[p] EXCEPT !.found = found # {},
                              !.user = IF found # {} THEN CHOOSE u \in found : TRUE ELSE NoUser])
    /\ UNCHANGED <<store, now, claude_client, max_history, bumps>>

\* Faulty variant of login_verify: the active flag is not looked at.
login_verify_any_account(p) ==
    /\ pc[p] = "login_verify"
    /\ LET l == loc[p] IN
       IF ~l.found \/ ~verify_password(l.password, l.user.hashed_password)
       THEN Finish(p, Unauthorized)
       ELSE Finish(p, Ok(200, [access_token |-> create_access_token(l.user.email),
                               token_type |-> "bearer"]))
    /\ UNCHANGED <<store, now, claude_client, max_history, bumps>>

\* auth.py 64-83: bad credentials, then a disabled account, else the token.
login_verify(p) ==
    /\ pc[p] = "login_verify"
    /\ LET l == loc[p] IN
       IF ~l.found \/ ~verify_password(l.password, l.user.hashed_password)
       THEN Finish(p, Unauthorized)
       ELSE IF ~l.user.is_active
       THEN Finish(p, Forbidden)
       ELSE Finish(p, Ok(200, [access_token |-> create_access_token(l.user.email),
                               token_type |-> "bearer"]))
    /\ UNCHANGED <<store, now, claude_client, max_history, bumps>>

\* ---------------------------------------------------------------- context assembly
BasePrompt == "You are a helpful assistant for Frederick Fire and Safety. \nYou help customers inquire about fire extinguishers and safety equipment.\nYou remember previous conversations and user preferences.\nBe friendly, helpful, and professional."

RECURSIVE Join(_)
\* "\n".join(parts)
Join(parts) ==
    IF Len(parts) = 0 THEN ""
    ELSE IF Len(parts) = 1 THEN parts[1]
    ELSE parts[1] \o "\n" \o Join(Tail(parts))

Part(label, value) == IF TruthyStr(value) THEN <<label \o value>> ELSE <<>>

\* chat.py 34-58.  HasProfile is FALSE when the select found no profile.
build_system_prompt(hasProfile, profile) ==
    IF ~hasProfile THEN BasePrompt
    ELSE LET context_parts ==
                 Part("Customer name: ", profile.display_name)
              \o Part("Company: ", profile.company_name)
              \o Part("Phone: ", profile.phone)
              \o Part("Preferences: ", profile.preferences)
              \o Part("Notes: ", profile.notes)
         IN IF Len(context_parts) > 0
            THEN BasePrompt \o "\n\nKnown information about this customer:\n" \o Join(context_parts)
            ELSE BasePrompt

ConvMsgs(cid) == {m \in messages : m.conversation_id = cid}

RECURSIVE OrderedDesc(_)
\* The orders in which ORDER BY created_at DESC may return the rows S: rows
\* of equal created_at come in any order.
OrderedDesc(S) ==
    IF S = {} THEN {<<>>}
    ELSE UNION { {<<m>> \o s : s \in OrderedDesc(S \ {m})} :
                 m \in {x \in S : \A y \in S : y.created_at <= x.created_at} }

Reverse(s) == [i \in 1..Len(s) |-> s[Len(s) + 1 - i]]

\* ORDER BY created_at ASC.
OrderedAsc(S) == {Reverse(s) : s \in OrderedDesc(S)}

\* LIMIT n, n >= 0.
Limit(s, n) == SubSeq(s, 1, Min2(n, Len(s)))

\* chat.py 63: limit = limit or settings.MAX_CONVERSATION_HISTORY
EffectiveLimit(limit) == IF TruthyInt(limit) THEN limit ELSE max_history

\* chat.py 61-77: the rows the function may return, oldest first.  The
\* function returns their role/content pairs, RoleContent(rows).
get_conversation_history(conversation_id, limit) ==
    {Reverse(Limit(s, EffectiveLimit(limit))) : s \in OrderedDesc(ConvMsgs(conversation_id))}

RoleContent(rows) == [i \in 1..Len(rows) |-> [role |-> rows[i].role, content |-> rows[i].content]]

\* chat.py 84
DemoReply(new_message) ==
    "[Demo mode - Claude API not configured] I received your message: '" \o new_message
        \o "'. To enable real responses, set your ANTHROPIC_API_KEY."

\* chat.py 98
ApologyReply(e) == "I apologize, but I encountered an error: " \o e \o ". Please try again."

\* Mutant of FullMessages: the new message is not appended.
FullMessagesHistoryOnly(history, new_message) == history

\* chat.py 87
FullMessages(history, new_message) ==
    Append(history, [role |-> "user", content |-> new_message])

\* ---------------------------------------------------------------- create_conversation
\* models.py 45-51: created_at and updated_at are two readings of the clock.
NewConversation(id, user_id, title, t1, t2) ==
    [id |-> id, user_id |-> user_id, title |-> title, created_at |-> t1, updated_at |-> t2]

\* chat.py 119-132, one commit.
create_conversation(p, user, title) ==
    /\ pc[p] = "idle"
    /\ \E t1 \in UtcNow : \E t2 \in {t \in {t1, t1 + 1} : t <= MaxClock} :
        LET id == NextId(conversations)
            conversation == NewConversation(id, user,
                                IF TruthyStr(title) THEN title ELSE "New Conversation", t1, t2)
        IN /\ conversations' = conversations \cup {conversation}
           /\ bumps' = [bumps EXCEPT ![id] = 0]
           /\ now' = t2
           /\ pc' = [pc EXCEPT ![p] = "done"]
           /\ loc' = [loc EXCEPT ![p] = [op |-> "create_conversation", user |-> user,
                                        result |-> Ok(201, conversation)]]
    /\ UNCHANGED <<users, profiles, messages, claude_client, max_history>>

\* The row a handler's ownership query finds (chat.py 142-146, 178-182,
\* 211-215, 280-284): Conversation.id == conversation_id AND
\* Conversation.user_id == current_user.id.
OwnedConversation(conversation_id, user) ==
    {c \in conversations : c.id = conversation_id /\ c.user_id = user}

\* ---------------------------------------------------------------- send_message
\* ghost: what the ownership query of a request meets.
Target(conversation_id, user) ==
    IF OwnedConversation(conversation_id, user) # {} THEN "owned"
    ELSE IF \E c \in conversations : c.id = conversation_id THEN "foreign"
    ELSE "missing"

\* The local variables of send_message (chat.py 203-265); quick_message
\* (chat.py 271-303) runs the same handler after its own first step.
\* ghost fields: requested, asked, target, hist_rows, full_messages, calls, outcome,
\* error, pre_msgs, pre_bumps, pre_titles, created, steps.
SendLoc(op, user, conversation_id, content) ==
    [op |-> op, user |-> user, conversation_id |-> conversation_id, content |-> content,
     conversation |-> NoConv, has_profile |-> FALSE, profile |-> NoProfile,
     system_prompt |-> "", history |-> <<>>, user_message |-> NoMsg,
     assistant_response |-> "", assistant_message |-> NoMsg, new_updated_at |-> 0,
     target |-> "", hist_rows |-> <<>>, full_messages |-> <<>>, calls |-> 0,
     outcome |-> "", error |-> "", pre_msgs |-> {}, pre_bumps |-> 0, created |-> 0,
     requested |-> conversation_id, asked |-> "", pre_titles |-> {}, steps |-> <<>>,
     result |-> Ok(0, <<>>)]

\* ghost: the handler has begun the named step of its pipeline; a step that
\* takes several actions of the model is recorded once.
Did(l, name) ==
    [l EXCEPT !.steps = IF @ # <<>> /\ @[Len(@)] = name THEN @ ELSE Append(@, name)]

send_message_begin(p, user, conversation_id, content) ==
    /\ Begin(p, SendLoc("send_message", user, conversation_id, content), "send_validate")
    /\ UNCHANGED <<store, now, claude_client, max_history, bumps>>

\* Mutant of send_message_validate: the user message is stored next, before
\* the profile and the history are read.
send_message_validate_then_store(p) ==
    /\ pc[p] = "send_validate"
    /\ LET l == loc[p]
           found == OwnedConversation(l.conversation_id, l.user)
           seen == [l EXCEPT !.target = Target(l.conversation_id, l.user),
                             !.asked = IF l.op = "send_message"
                                       THEN Target(l.conversation_id, l.user) ELSE l.asked]
       IN IF found = {}
          THEN FinishWith(p, seen, NotFound)
          ELSE Goto(p, "send_new_user",
                    Did([seen EXCEPT !.conversation = CHOOSE c \in found : TRUE,
                                     !.pre_msgs = ConvMsgs(l.conversation_id),
                                     !.pre_bumps = bumps[l.conversation_id]], "Validate"))
    /\ UNCHANGED <<store, now, claude_client, max_history, bumps>>

\* chat.py 210-221: the conversation must exist and belong to the caller.
send_message_validate(p) ==
    /\ pc[p] = "send_validate"
    /\ LET l == loc[p]
           found == OwnedConversation(l.conversation_id, l.user)
           seen == [l EXCEPT !.target = Target(l.conversation_id, l.user),
                             !.asked = IF l.op = "send_message"
                                       THEN Target(l.conversation_id, l.user) ELSE l.asked]
       IN IF found = {}
          THEN FinishWith(p, seen, NotFound)
          ELSE Goto(p, "send_context",
                    Did([seen EXCEPT !.conversation = CHOOSE c \in found : TRUE,
                                     !.pre_msgs = ConvMsgs(l.conversation_id),
                                     !.pre_bumps = bumps[l.conversation_id]], "Validate"))
    /\ UNCHANGED <<store, now, claude_client, max_history, bumps>>

\* chat.py 223-228: the caller's profile and the system prompt.
send_message_context(p) ==
    /\ pc[p] = "send_context"
    /\ LET l == loc[p]
           found == {q \in profiles : q.user_id = l.user}
           has == found # {}
           profile == IF has THEN CHOOSE q \in found : TRUE ELSE NoProfile
       IN Goto(p, "send_history",
               Did([l EXCEPT !.has_profile = has, !.profile = profile,
                             !.system_prompt = build_system_prompt(has, profile)],
                   "AssembleContext"))
    /\ UNCHANGED <<store, now, claude_client, max_history, bumps>>

\* chat.py 230-231: the history, read with the default limit.
send_message_history(p) ==
    /\ pc[p] = "send_history"
    /\ \E rows \in get_conversation_history(loc[p].conversation_id, NoneInt) :
        Goto(p, "send_new_user",
             Did([loc[p] EXCEPT !.history = RoleContent(rows), !.hist_rows = rows],
                 "AssembleContext"))
    /\ UNCHANGED <<store, now, claude_client, max_history, bumps>>

\* Mutant of send_message_new_user: the completion call is made before the
\* user message is committed.
send_message_new_user_call_first(p) ==
    /\ pc[p] = "send_new_user"
    /\ \E t \in UtcNow :
        /\ now' = t
        /\ Goto(p, "send_call",
                [loc[p] EXCEPT !.user_message =
                    [id |-> 0, conversation_id |-> loc[p].conversation_id, role |-> "user",
                     content |-> loc[p].content, created_at |-> t]])
    /\ UNCHANGED <<store, claude_client, max_history, bumps>>

\* chat.py 234-239: the user message is constructed; created_at is a
\* reading of the clock (models.py 66).
send_message_new_user(p) ==
    /\ pc[p] = "send_new_user"
    /\ \E t \in UtcNow :
        /\ now' = t
        /\ Goto(p, "send_commit_user",
                Did([loc[p] EXCEPT !.user_message =
                        [id |-> 0, conversation_id |-> loc[p].conversation_id, role |-> "user",
                         content |-> loc[p].content, created_at |-> t]],
                    "PersistUserMessage"))
    /\ UNCHANGED <<store, claude_client, max_history, bumps>>

\* Mutant of send_message_commit_user: the user message is added to the
\* session and not committed.
send_message_commit_user_not_stored(p) ==
    /\ pc[p] = "send_commit_user"
    /\ Goto(p, "send_call", [loc[p] EXCEPT !.user_message.id = NextId(messages)])
    /\ UNCHANGED <<store, now, claude_client, max_history, bumps>>

\* chat.py 240-241: first commit, the user message alone.
send_message_commit_user(p) ==
    /\ pc[p] = "send_commit_user"
    /\ LET user_message == [loc[p].user_message EXCEPT !.id = NextId(messages)]
       IN /\ messages' = messages \cup {user_message}
          /\ Goto(p, "send_call",
                  Did([loc[p] EXCEPT !.user_message = user_message], "PersistUserMessage"))
    /\ UNCHANGED <<users, profiles, conversations, now, claude_client, max_history, bumps>>

\* Mutant of send_message_call_claude: without a client the call raises
\* instead of answering with the demo reply.
send_message_call_claude_requires_client(p) ==
    /\ pc[p] = "send_call"
    /\ LET l == loc[p] IN
       IF ~claude_client
       THEN FinishWith(p, Did([l EXCEPT !.outcome = "demo"], "InvokeCompletion"),
                       HttpError(500, "client not configured"))
       ELSE Goto(p, "send_await",
                 Did([l EXCEPT !.full_messages = FullMessages(l.history, l.content),
                               !.calls = l.calls + 1], "InvokeCompletion"))
    /\ UNCHANGED <<store, now, claude_client, max_history, bumps>>

\* chat.py 244, 82-87: call_claude.  Without a client it answers at once
\* with the demo reply; with one it sends history + the new message.
send_message_call_claude(p) ==
    /\ pc[p] = "send_call"
    /\ LET l == loc[p] IN
       IF ~claude_client
       THEN Goto(p, "send_new_asst",
                 Did([l EXCEPT !.assistant_response = DemoReply(l.content),
                               !.outcome = "demo"], "InvokeCompletion"))
       ELSE Goto(p, "send_await",
                 Did([l EXCEPT !.full_messages = FullMessages(l.history, l.content),
                               !.calls = l.calls + 1], "InvokeCompletion"))
    /\ UNCHANGED <<store, now, claude_client, max_history, bumps>>

\* Mutant of send_message_completion: the service's error is not caught.
send_message_completion_uncaught(p) ==
    /\ pc[p] = "send_await"
    /\ \/ \E text \in ServiceReplies :
            Goto(p, "send_new_asst",
                 [loc[p] EXCEPT !.assistant_response = text, !.outcome = "ok"])
       \/ \E e \in ServiceErrors :
            FinishWith(p, [loc[p] EXCEPT !.outcome = "error", !.error = e],
                       HttpError(500, e))
    /\ UNCHANGED <<store, now, claude_client, max_history, bumps>>

\* Mutant of send_message_completion: a call that failed is made once more
\* before the error is turned into the apology.
send_message_completion_retry_once(p) ==
    /\ pc[p] = "send_await"
    /\ \/ \E text \in ServiceReplies :
            Goto(p, "send_new_asst",
                 [loc[p] EXCEPT !.assistant_response = text, !.outcome = "ok"])
       \/ \E e \in ServiceErrors :
            IF loc[p].calls < 2
            THEN Goto(p, "send_call", [loc[p] EXCEPT !.outcome = "error", !.error = e])
            ELSE Goto(p, "send_new_asst",
                      [loc[p] EXCEPT !.assistant_response = ApologyReply(e),
                                     !.outcome = "error", !.error = e])
    /\ UNCHANGED <<store, now, claude_client, max_history, bumps>>

\* chat.py 89-98: the service answers, or raises and the error is turned
\* into the apology.
send_message_completion(p) ==
    /\ pc[p] = "send_await"
    /\ \/ \E text \in ServiceReplies :
            Goto(p, "send_new_asst",
                 [loc[p] EXCEPT !.assistant_response = text, !.outcome = "ok"])
       \/ \E e \in ServiceErrors :
            Goto(p, "send_new_asst",
                 [loc[p] EXCEPT !.assistant_response = ApologyReply(e), !.outcome = "error",
                              !.error = e])
    /\ UNCHANGED <<store, now, claude_client, max_history, bumps>>

\* chat.py 247-256: the assistant message is constructed and the
\* conversation's updated_at set, each with its own reading of the clock.
send_message_new_assistant(p) ==
    /\ pc[p] = "send_new_asst"
    /\ \E t1 \in UtcNow : \E t2 \in {t \in {t1, t1 + 1} : t <= MaxClock} :
        /\ now' = t2
        /\ Goto(p, "send_commit_asst",
                Did(Did([loc[p] EXCEPT !.assistant_message =
                            [id |-> 0, conversation_id |-> loc[p].conversation_id,
                             role |-> "assistant", content |-> loc[p].assistant_response,
                             created_at |-> t1],
                          !.new_updated_at = t2],
                        "PersistAssistantMessage"), "UpdateConversationTimestamp"))
    /\ UNCHANGED <<store, claude_client, max_history, bumps>>

\* Mutant of send_message_commit_assistant: the assistant message is not
\* added to the session; only the conversation is written.
send_message_commit_assistant_no_message(p) ==
    /\ pc[p] = "send_commit_asst"
    /\ LET l == loc[p]
           cid == l.conversation.id
       IN /\ conversations' = {IF c.id = cid THEN [c EXCEPT !.updated_at = l.new_updated_at]
                               ELSE c : c \in conversations}
          /\ bumps' = [bumps EXCEPT ![cid] = @ + 1]
          /\ Finish(p, Ok(200, [conversation_id |-> l.conversation_id,
                                user_message |-> l.user_message,
                                assistant_message |-> l.assistant_message]))
    /\ UNCHANGED <<users, profiles, messages, now, claude_client, max_history>>

\* Mutant of send_message_commit_assistant: the conversation's updated_at
\* is not written; only the assistant message is.
send_message_commit_assistant_no_bump(p) ==
    /\ pc[p] = "send_commit_asst"
    /\ LET l == loc[p]
           assistant_message == [l.assistant_message EXCEPT !.id = NextId(messages)]
       IN /\ messages' = messages \cup {assistant_message}
          /\ FinishWith(p, [l EXCEPT !.assistant_message = assistant_message],
                        Ok(200, [conversation_id |-> l.conversation_id,
                                 user_message |-> l.user_message,
                                 assistant_message |-> assistant_message]))
    /\ UNCHANGED <<users, profiles, conversations, now, claude_client, max_history, bumps>>

\* chat.py 258-265: second commit, the assistant message and the
\* conversation's updated_at together, then the response.  The UPDATE is by
\* primary key; when no row has it the flush fails and nothing is written.
\* The response reads the user message back by its primary key (the commit
\* expired the object); when the row is gone that read fails.
send_message_commit_assistant(p) ==
    /\ pc[p] = "send_commit_asst"
    /\ LET l == loc[p]
           cid == l.conversation.id
           assistant_message == [l.assistant_message EXCEPT !.id = NextId(messages)]
           reread == {m \in messages : m.id = l.user_message.id}
       IN IF \E c \in conversations : c.id = cid
          THEN /\ messages' = messages \cup {assistant_message}
               /\ conversations' = {IF c.id = cid THEN [c EXCEPT !.updated_at = l.new_updated_at]
                                    ELSE c : c \in conversations}
               /\ bumps' = [bumps EXCEPT ![cid] = @ + 1]
               /\ IF reread = {}
                  THEN FinishWith(p, Did([l EXCEPT !.assistant_message = assistant_message],
                                         "Commit"),
                                  HttpError(500, "ObjectDeletedError"))
                  ELSE FinishWith(p, Did([l EXCEPT !.assistant_message = assistant_message],
                                         "Commit"),
                                  Ok(200, [conversation_id |-> l.conversation_id,
                                           user_message |-> CHOOSE m \in reread : TRUE,
                                           assistant_message |-> assistant_message]))
          ELSE /\ UNCHANGED <<messages, conversations, bumps>>
               /\ FinishWith(p, Did(l, "Commit"), HttpError(500, "StaleDataError"))
    /\ UNCHANGED <<users, profiles, now, claude_client, max_history>>

\* ---------------------------------------------------------------- quick_message
\* ghost: the conversations with their owners and titles.
Titles == {[id |-> c.id, user_id |-> c.user_id, title |-> c.title] : c \in conversations}

\* Faulty variant of QuickTitle: the title is cut at 50 characters and no
\* marker is appended.
QuickTitleNoMarker(content) ==
    IF Len(content) > 50 THEN SubSeq(content, 1, 50) ELSE content

\* chat.py 293
QuickTitle(content) ==
    IF Len(content) > 50 THEN SubSeq(content, 1, 50) \o "..." ELSE content

quick_message_begin(p, user, conversation_id, content) ==
    /\ Begin(p, [SendLoc("quick_message", user, conversation_id, content)
                 EXCEPT !.pre_titles = Titles], "quick_route")
    /\ UNCHANGED <<store, now, claude_client, max_history, bumps>>

\* chat.py 278-303: with a conversation id the conversation must exist and
\* belong to the caller; without one a conversation is created and
\* committed.  Then send_message runs on the conversation.
quick_message_route(p) ==
    /\ pc[p] = "quick_route"
    /\ LET l == [loc[p] EXCEPT !.asked = IF loc[p].requested = NoneInt THEN "none"
                                         ELSE Target(loc[p].requested, loc[p].user)]
       IN
       IF TruthyInt(l.conversation_id)
       THEN /\ IF OwnedConversation(l.conversation_id, l.user) = {}
               THEN FinishWith(p, [l EXCEPT !.target = Target(l.conversation_id, l.user)],
                               NotFound)
               ELSE Goto(p, "send_validate", l)
            /\ UNCHANGED <<conversations, now, bumps>>
       ELSE \E t1 \in UtcNow : \E t2 \in {t \in {t1, t1 + 1} : t <= MaxClock} :
            LET id == NextId(conversations) IN
            /\ conversations' = conversations \cup
                   {NewConversation(id, l.user, QuickTitle(l.content), t1, t2)}
            /\ bumps' = [bumps EXCEPT ![id] = 0]
            /\ now' = t2
            /\ Goto(p, "send_validate", [l EXCEPT !.conversation_id = id, !.created = id])
    /\ UNCHANGED <<users, profiles, messages, claude_client, max_history>>

\* ---------------------------------------------------------------- delete_conversation
delete_conversation_begin(p, user, conversation_id) ==
    /\ Begin(p, [op |-> "delete_conversation", user |-> user,
                 conversation_id |-> conversation_id, conversation |-> NoConv,
                 messages |-> {}, target |-> "", result |-> Ok(0, <<>>)], "del_validate")
    /\ UNCHANGED <<store, now, claude_client, max_history, bumps>>

\* chat.py 178-188
delete_conversation_validate(p) ==
    /\ pc[p] = "del_validate"
    /\ LET l == loc[p]
           found == OwnedConversation(l.conversation_id, l.user)
           seen == [l EXCEPT !.target = Target(l.conversation_id, l.user)]
       IN IF found = {}
          THEN FinishWith(p, seen, NotFound)
          ELSE Goto(p, "del_select", [seen EXCEPT !.conversation = CHOOSE c \in found : TRUE])
    /\ UNCHANGED <<store, now, claude_client, max_history, bumps>>

\* chat.py 190-194: the conversation's messages are selected and marked
\* for deletion.
delete_conversation_select(p) ==
    /\ pc[p] = "del_select"
    /\ Goto(p, "del_commit", [loc[p] EXCEPT !.messages = ConvMsgs(loc[p].conversation_id)])
    /\ UNCHANGED <<store, now, claude_client, max_history, bumps>>

\* Mutant of delete_conversation_commit: the messages are not deleted.
delete_conversation_commit_keeps_messages(p) ==
    /\ pc[p] = "del_commit"
    /\ LET l == loc[p]
       IN /\ conversations' = {c \in conversations : c.id # l.conversation.id}
          /\ bumps' = [bumps EXCEPT ![l.conversation.id] = 0]
          /\ Finish(p, Ok(204, <<>>))
    /\ UNCHANGED <<users, profiles, messages, now, claude_client, max_history>>

\* chat.py 196-197: one commit deletes the selected messages and the
\* conversation, each by primary key.
delete_conversation_commit(p) ==
    /\ pc[p] = "del_commit"
    /\ LET l == loc[p]
           ids == {m.id : m \in l.messages}
       IN /\ messages' = {m \in messages : m.id \notin ids}
          /\ conversations' = {c \in conversations : c.id # l.conversation.id}
          /\ bumps' = [bumps EXCEPT ![l.conversation.id] = 0]
          /\ Finish(p, Ok(204, <<>>))
    /\ UNCHANGED <<users, profiles, now, claude_client, max_history>>

\* ---------------------------------------------------------------- get_conversation
get_conversation_begin(p, user, conversation_id) ==
    /\ Begin(p, [op |-> "get_conversation", user |-> user,
                 conversation_id |-> conversation_id, conversation |-> NoConv,
                 target |-> "", result |-> Ok(0, <<>>)], "get_validate")
    /\ UNCHANGED <<store, now, claude_client, max_history, bumps>>

\* chat.py 142-152
get_conversation_validate(p) ==
    /\ pc[p] = "get_validate"
    /\ LET l == loc[p]
           found == OwnedConversation(l.conversation_id, l.user)
           seen == [l EXCEPT !.target = Target(l.conversation_id, l.user)]
       IN IF found = {}
          THEN FinishWith(p, seen, NotFound)
          ELSE Goto(p, "get_messages", [seen EXCEPT !.conversation = CHOOSE c \in found : TRUE])
    /\ UNCHANGED <<store, now, claude_client, max_history, bumps>>

\* chat.py 154-168: the messages, ORDER BY created_at ASC.
get_conversation_messages(p) ==
    /\ pc[p] = "get_messages"
    /\ \E rows \in OrderedAsc(ConvMsgs(loc[p].conversation_id)) :
        LET c == loc[p].conversation IN
        Finish(p, Ok(200, [id |-> c.id, title |-> c.title, created_at |-> c.created_at,
                           updated_at |-> c.updated_at, messages |-> rows]))
    /\ UNCHANGED <<store, now, claude_client, max_history, bumps>>

\* ---------------------------------------------------------------- get_conversation_history
\* A call of get_conversation_history (chat.py 61-77) with any limit, None
\* included, on the tables as they are.  ghost fields: rows.
get_conversation_history_call(p, conversation_id, limit) ==
    /\ pc[p] = "idle"
    /\ \E rows \in get_conversation_history(conversation_id, limit) :
        /\ pc' = [pc EXCEPT ![p] = "done"]
        /\ loc' = [loc EXCEPT ![p] = [op |-> "get_conversation_history",
                                     conversation_id |-> conversation_id, limit |-> limit,
                                     rows |-> rows, result |-> Ok(0, RoleContent(rows))]]
    /\ UNCHANGED <<store, now, claude_client, max_history, bumps>>

\* ---------------------------------------------------------------- get_profile
get_profile_begin(p, user) ==
    /\ Begin(p, [op |-> "get_profile", user |-> user, result |-> Ok(0, <<>>)], "gp_select")
    /\ UNCHANGED <<store, now, claude_client, max_history, bumps>>

\* chat.py 314-317, 324
get_profile_select(p) ==
    /\ pc[p] = "gp_select"
    /\ LET found == {q \in profiles : q.user_id = loc[p].user}
       IN IF found # {}
          THEN Finish(p, Ok(200, CHOOSE q \in found : TRUE))
          ELSE Goto(p, "gp_commit", loc[p])
    /\ UNCHANGED <<store, now, claude_client, max_history, bumps>>

\* chat.py 318-324: an empty profile is inserted and committed.
get_profile_commit(p) ==
    /\ pc[p] = "gp_commit"
    /\ \E t \in UtcNow :
        /\ now' = t
        /\ IF \E q \in profiles : q.user_id = loc[p].user
           THEN /\ Finish(p, HttpError(500, "IntegrityError"))
                /\ profiles' = profiles
           ELSE LET profile == [NoProfile EXCEPT !.id = NextId(profiles),
                                                 !.user_id = loc[p].user, !.updated_at = t]
                IN /\ profiles' = profiles \cup {profile}
                   /\ Finish(p, Ok(200, profile))
    /\ UNCHANGED <<users, conversations, messages, claude_client, max_history, bumps>>

\* ---------------------------------------------------------------- update_profile
\* A payload holds the fields the request sets (model_dump(exclude_unset=True),
\* chat.py 341); a field may be set to None.
Payloads == UNION {[S -> FieldValues \cup {NoneStr}] : S \in SUBSET ProfileFields}

\* Mutant of Merge: the profile is replaced, omitted fields become None.
MergeReplaces(profile, update_data) ==
    [f \in DOMAIN profile |->
        IF f \in DOMAIN update_data THEN update_data[f]
        ELSE IF f \in ProfileFields THEN NoneStr ELSE profile[f]]

\* chat.py 342-343: setattr for every field of the payload.
Merge(profile, update_data) ==
    [f \in DOMAIN profile |-> IF f \in DOMAIN update_data THEN update_data[f] ELSE profile[f]]

\* ghost fields: before, had_profile.
update_profile_begin(p, user, payload) ==
    /\ Begin(p, [op |-> "update_profile", user |-> user, payload |-> payload,
                 profile |-> NoProfile, had_profile |-> FALSE, before |-> NoProfile,
                 result |-> Ok(0, <<>>)], "up_select")
    /\ UNCHANGED <<store, now, claude_client, max_history, bumps>>

\* chat.py 334-338: the caller's profile, or a new one.
update_profile_select(p) ==
    /\ pc[p] = "up_select"
    /\ LET found == {q \in profiles : q.user_id = loc[p].user}
           has == found # {}
           profile == IF has THEN CHOOSE q \in found : TRUE
                      ELSE [NoProfile EXCEPT !.user_id = loc[p].user]
       IN Goto(p, "up_commit",
               [loc[p] EXCEPT !.profile = profile, !.had_profile = has, !.before = profile])
    /\ UNCHANGED <<store, now, claude_client, max_history, bumps>>

\* chat.py 340-350: the payload's fields are set, updated_at is set to a
\* reading of the clock, and the profile is committed (an UPDATE by primary
\* key of a profile that was found, an INSERT of a new one).
update_profile_commit(p) ==
    /\ pc[p] = "up_commit"
    /\ \E t \in UtcNow :
        LET l == loc[p]
            merged == [Merge(l.profile, l.payload) EXCEPT !.updated_at = t]
        IN /\ now' = t
           /\ IF l.had_profile
              THEN IF \E q \in profiles : q.id = l.profile.id
                   THEN /\ profiles' = {IF q.id = l.profile.id THEN merged ELSE q : q \in profiles}
                        /\ FinishWith(p, [l EXCEPT !.profile = merged], Ok(200, merged))
                   ELSE /\ profiles' = profiles
                        /\ Finish(p, HttpError(500, "StaleDataError"))
              ELSE IF \E q \in profiles : q.user_id = l.user
                   THEN /\ profiles' = profiles
                        /\ Finish(p, HttpError(500, "IntegrityError"))
                   ELSE LET profile == [merged EXCEPT !.id = NextId(profiles)]
                        IN /\ profiles' = profiles \cup {profile}
                           /\ FinishWith(p, [l EXCEPT !.profile = profile], Ok(200, profile))
    /\ UNCHANGED <<users, conversations, messages, claude_client, max_history, bumps>>

\* ---------------------------------------------------------------- specifications
UserIds == {u.id : u \in users}
ConvIdInputs == 0..MaxConvs
LimitInputs == {NoneInt} \cup (0..MaxMsgs)

\* The bounds of the model: a turn needs two message ids, a new
\* conversation one conversation id.
RoomForTurn == NextId(messages) + 1 <= MaxMsgs
RoomForConversation == NextId(conversations) <= MaxConvs

\* The steps of the conversation handlers.
Step(p) ==
    \/ send_message_validate(p)
    \/ send_message_context(p)
    \/ send_message_history(p)
    \/ send_message_new_user(p)
    \/ send_message_commit_user(p)
    \/ send_message_call_claude(p)
    \/ send_message_completion(p)
    \/ send_message_new_assistant(p)
    \/ send_message_commit_assistant(p)
    \/ quick_message_route(p)
    \/ delete_conversation_validate(p)
    \/ delete_conversation_select(p)
    \/ delete_conversation_commit(p)
    \/ Respond(p)

\* The requests that write conversations and messages.
Request(p) ==
    \/ /\ RoomForConversation
       /\ \E u \in UserIds, t \in TitleInputs : create_conversation(p, u, t)
    \/ /\ RoomForTurn
       /\ \E u \in UserIds, c \in ConvIdInputs, m \in Contents : send_message_begin(p, u, c, m)
    \/ /\ RoomForTurn
       /\ \E u \in UserIds, c \in ConvIdInputs \cup {NoneInt}, m \in Contents :
              /\ TruthyInt(c) \/ RoomForConversation
              /\ quick_message_begin(p, u, c, m)
    \/ \E u \in UserIds, c \in ConvIdInputs : delete_conversation_begin(p, u, c)

\* Requests are handled one at a time; the server may crash in the middle
\* of one.
Next == \E p \in SeqProcs : Request(p) \/ Step(p) \/ Crash(p)

Spec == InitRegistered /\ [][Next]_vars

\* The read operations beside the writing ones, one request at a time.
ReadRequest(p) ==
    \/ \E u \in UserIds, c \in ConvIdInputs : get_conversation_begin(p, u, c)
    \/ \E c \in ConvIdInputs, n \in LimitInputs : get_conversation_history_call(p, c, n)

ReadStep(p) ==
    \/ get_conversation_validate(p)
    \/ get_conversation_messages(p)

NextRead == \E p \in SeqProcs : Request(p) \/ Step(p) \/ ReadRequest(p) \/ ReadStep(p)

SpecRead == InitRegistered /\ [][NextRead]_vars

\* The profile endpoints, one request at a time.
ProfileStep(p) ==
    \/ register_user_check(p)
    \/ register_user_commit_user(p)
    \/ register_user_commit_profile(p)
    \/ get_profile_select(p)
    \/ get_profile_commit(p)
    \/ update_profile_select(p)
    \/ update_profile_commit(p)
    \/ Respond(p)
    \/ Crash(p)

ProfileRequest(p) ==
    \/ \E e \in ProfileEmails, w \in Passwords : register_user_begin(p, e, w)
    \/ \E u \in UserIds : get_profile_begin(p, u)
    \/ \E u \in UserIds, d \in Payloads : update_profile_begin(p, u, d)

NextProfile == \E p \in SeqProcs : ProfileRequest(p) \/ ProfileStep(p)

SpecProfile == InitNoChat /\ [][NextProfile]_vars

\* Conversations written concurrently by the processes of Procs: no
\* conversation is deleted.  One user, one content, one title.
InitSends ==
    /\ InitRegistered
    /\ max_history = 1

SendsUsers == {1}
SendsContents == {"hi"}
SendsTitles == {"Plan"}

InFlight(p) == pc[p] \notin {"idle", "done"} /\ loc[p].op \in {"send_message", "quick_message"}
\* Every turn in flight may still take two message ids.
RoomForConcurrentTurn ==
    NextId(messages) + 1 + 2 * Cardinality({q \in Procs : InFlight(q)}) <= MaxMsgs
\* A quick_message in flight may still take a conversation id.
RoomForConcurrentConversation ==
    NextId(conversations) + Cardinality({q \in Procs : pc[q] = "quick_route"}) <= MaxConvs

SendsStep(p) ==
    \/ send_message_validate(p)
    \/ send_message_context(p)
    \/ send_message_history(p)
    \/ send_message_new_user(p)
    \/ send_message_commit_user(p)
    \/ send_message_call_claude(p)
    \/ send_message_completion(p)
    \/ send_message_new_assistant(p)
    \/ send_message_commit_assistant(p)
    \/ quick_message_route(p)
    \/ Respond(p)

SendsRequest(p) ==
    \/ /\ RoomForConcurrentConversation
       /\ \E u \in SendsUsers, t \in SendsTitles : create_conversation(p, u, t)
    \/ /\ RoomForConcurrentTurn
       /\ \E u \in SendsUsers, c \in ConvIds, m \in SendsContents : send_message_begin(p, u, c, m)
    \/ /\ RoomForConcurrentTurn /\ RoomForConcurrentConversation
       /\ \E u \in SendsUsers, m \in SendsContents : quick_message_begin(p, u, NoneInt, m)

NextSends == \E p \in Procs : SendsRequest(p) \/ SendsStep(p)

SpecSends == InitSends /\ [][NextSends]_vars

\* The same with the scheduling of the server: every handler that can take
\* a step eventually takes one (each request runs on a thread of its own),
\* and the completion service, however slow, eventually answers or raises.
SpecLive == SpecSends /\ \A p \in Procs : WF_vars(SendsStep(p))

\* Conversations written and deleted concurrently by the processes of
\* Procs: a delete may run while a send on the same conversation is in
\* flight.  The completion client is not configured (chat.py 25-29, 82-83).
InitRace ==
    /\ InitSends
    /\ claude_client = FALSE

RaceStep(p) ==
    \/ send_message_validate(p)
    \/ send_message_context(p)
    \/ send_message_history(p)
    \/ send_message_new_user(p)
    \/ send_message_commit_user(p)
    \/ send_message_call_claude(p)
    \/ send_message_new_assistant(p)
    \/ send_message_commit_assistant(p)
    \/ quick_message_route(p)
    \/ delete_conversation_validate(p)
    \/ delete_conversation_select(p)
    \/ delete_conversation_commit(p)
    \/ Respond(p)

\* One turn at a time beside the deletes.
RoomForRaceTurn ==
    NextId(messages) + 1 + 2 * Cardinality({q \in Procs : InFlight(q)}) <= MaxRaceMsgs

RaceRequest(p) ==
    \/ /\ RoomForConcurrentConversation
       /\ \E u \in SendsUsers, t \in SendsTitles : create_conversation(p, u, t)
    \/ /\ RoomForRaceTurn
       /\ \E u \in SendsUsers, c \in ConvIds, m \in SendsContents : send_message_begin(p, u, c, m)
    \/ /\ RoomForRaceTurn /\ RoomForConcurrentConversation
       /\ \E u \in SendsUsers, m \in SendsContents : quick_message_begin(p, u, NoneInt, m)
    \/ \E u \in SendsUsers, c \in ConvIds : delete_conversation_begin(p, u, c)

NextRace == \E p \in Procs : RaceRequest(p) \/ RaceStep(p)

SpecRace == InitRace /\ [][NextRace]_vars

\* Turns on different conversations: user 1 has created two conversations
\* (chat.py 119-132) and sent one message on the first (chat.py 203-265,
\* client not configured); the processes of Procs then send on and delete
\* either conversation concurrently.
PairConvIds == 1..MaxPairConvs

InitPair ==
    /\ users = {[id |-> 1, email |-> "a@x.com", hashed_password |-> get_password_hash("pw1"),
                 is_active |-> TRUE]}
    /\ profiles = {[NoProfile EXCEPT !.id = 1, !.user_id = 1]}
    /\ conversations = {NewConversation(1, 1, "Plan", 0, 0), NewConversation(2, 1, "Plan", 0, 0)}
    /\ messages = {[id |-> 1, conversation_id |-> 1, role |-> "user", content |-> "hi",
                    created_at |-> 0],
                   [id |-> 2, conversation_id |-> 1, role |-> "assistant",
                    content |-> DemoReply("hi"), created_at |-> 0]}
    /\ now = 0
    /\ claude_client = FALSE
    /\ max_history = 1
    /\ pc = [p \in Procs |-> "idle"]
    /\ loc = [p \in Procs |-> NoLoc]
    /\ bumps = [c \in PairConvIds |-> IF c = 1 THEN 1 ELSE 0]

RoomForPairTurn ==
    NextId(messages) + 1 + 2 * Cardinality({q \in Procs : InFlight(q)}) <= MaxPairMsgs

PairStep(p) ==
    \/ send_message_validate(p)
    \/ send_message_context(p)
    \/ send_message_history(p)
    \/ send_message_new_user(p)
    \/ send_message_commit_user(p)
    \/ send_message_call_claude(p)
    \/ send_message_new_assistant(p)
    \/ send_message_commit_assistant(p)
    \/ delete_conversation_validate(p)
    \/ delete_conversation_select(p)
    \/ delete_conversation_commit(p)
    \/ Respond(p)

PairRequest(p) ==
    \/ /\ RoomForPairTurn
       /\ \E u \in SendsUsers, c \in PairConvIds, m \in SendsContents :
              send_message_begin(p, u, c, m)
    \/ \E u \in SendsUsers, c \in PairConvIds : delete_conversation_begin(p, u, c)

NextPair == \E p \in Procs : PairRequest(p) \/ PairStep(p)

SpecPair == InitPair /\ [][NextPair]_vars

\* The turns of a conversation one at a time, with an even history limit
\* (config.py 36; the default is 20): no delete, no crash, more turns than
\* the window holds.
InitTurns ==
    /\ InitRegistered
    /\ max_history % 2 = 0

RoomForNextTurn == NextId(messages) + 1 <= MaxTurnMsgs

TurnsStep(p) ==
    \/ send_message_validate(p)
    \/ send_message_context(p)
    \/ send_message_history(p)
    \/ send_message_new_user(p)
    \/ send_message_commit_user(p)
    \/ send_message_call_claude(p)
    \/ send_message_completion(p)
    \/ send_message_new_assistant(p)
    \/ send_message_commit_assistant(p)
    \/ Respond(p)

TurnsRequest(p) ==
    \/ /\ RoomForConversation
       /\ \E u \in SendsUsers, t \in SendsTitles : create_conversation(p, u, t)
    \/ /\ RoomForNextTurn
       /\ \E u \in SendsUsers, c \in ConvIds, m \in SendsContents : send_message_begin(p, u, c, m)

NextTurns == \E p \in SeqProcs : TurnsRequest(p) \/ TurnsStep(p)

SpecTurns == InitTurns /\ [][NextTurns]_vars

\* The accounts: registration, login and the profile endpoints, requests
\* handled concurrently by the processes of Procs.  One user registered
\* earlier (auth.py 23-52) and the account was disabled afterwards (is_active
\* is a column of the table; no handler of the program clears it).
InitAccounts ==
    /\ users = {[id |-> 1, email |-> "b@x.com", hashed_password |-> get_password_hash("pw1"),
                 is_active |-> FALSE]}
    /\ profiles = {[NoProfile EXCEPT !.id = 1, !.user_id = 1]}
    /\ conversations = {}
    /\ messages = {}
    /\ now = 0
    /\ claude_client = FALSE
    /\ max_history = 1
    /\ pc = [p \in Procs |-> "idle"]
    /\ loc = [p \in Procs |-> NoLoc]
    /\ bumps = [c \in ConvIds |-> 0]

\* The users a token can be held for.
ActiveUserIds == {u.id : u \in {v \in users : v.is_active}}
PhonePayloads == {d \in Payloads : DOMAIN d \subseteq {"phone"}}

AccountStep(p) ==
    \/ register_user_check(p)
    \/ register_user_commit_user(p)
    \/ register_user_commit_profile(p)
    \/ login_select(p)
    \/ login_verify(p)
    \/ get_profile_select(p)
    \/ get_profile_commit(p)
    \/ update_profile_select(p)
    \/ update_profile_commit(p)
    \/ Respond(p)
    \/ Crash(p)

AccountRequest(p) ==
    \/ \E e \in Emails, w \in Passwords : register_user_begin(p, e, w)
    \/ \E e \in Emails, w \in LoginPasswords : login_begin(p, e, w)
    \/ \E u \in ActiveUserIds : get_profile_begin(p, u)
    \/ \E u \in ActiveUserIds, d \in PhonePayloads : update_profile_begin(p, u, d)

NextAccounts == \E p \in Procs : AccountRequest(p) \/ AccountStep(p)

SpecAccounts == InitAccounts /\ [][NextAccounts]_vars

\* ---------------------------------------------------------------- properties
Sending(p) == loc[p].op \in {"send_message", "quick_message"}
UserMsgs(cid) == {m \in ConvMsgs(cid) : m.role = "user"}
AsstMsgs(cid) == {m \in ConvMsgs(cid) : m.role = "assistant"}
AllIdle == \A p \in Procs : pc[p] = "idle"

\* s contains sub as a substring (Python: sub in s).
Contains(s, sub) ==
    \E i \in 1..(Len(s) - Len(sub) + 1) : SubSeq(s, i, i + Len(sub) - 1) = sub

\* C1: a send_message call that passed validation has, when it returns,
\* added exactly two messages to its conversation, the user message with the
\* inbound content and after it the assistant message, and written the
\* conversation's updated_at exactly once, whatever the completion service
\* did (not configured, answer, error).
C1_TwoMessagesOneBump ==
    \A p \in Procs :
        (pc[p] = "done" /\ Sending(p) /\ loc[p].target = "owned") =>
            LET l == loc[p]
                cid == l.conversation_id
                u == l.user_message
                a == l.assistant_message
            IN /\ l.outcome \in {"demo", "ok", "error"}
               /\ u \notin l.pre_msgs /\ a \notin l.pre_msgs /\ u # a
               /\ ConvMsgs(cid) = l.pre_msgs \cup {u, a}
               /\ u.role = "user" /\ u.content = l.content
               /\ a.role = "assistant" /\ a.content = l.assistant_response
               /\ u.id < a.id
               /\ \A m \in l.pre_msgs : m.id < u.id
               /\ bumps[cid] = l.pre_bumps + 1

\* C1 witness: a second turn of a conversation has returned after the
\* service raised an error.
C1_Witness ==
    \E p \in Procs :
        /\ pc[p] = "done" /\ Sending(p) /\ loc[p].target = "owned"
        /\ loc[p].outcome = "error"
        /\ Cardinality(loc[p].pre_msgs) = 2

AfterUserCommit == {"send_call", "send_await", "send_new_asst", "send_commit_asst"}

UserMessageStored(p) ==
    \E m \in messages :
        /\ m = loc[p].user_message
        /\ m.role = "user"
        /\ m.content = loc[p].content
        /\ m.conversation_id = loc[p].conversation_id

\* C3: from the moment call_claude is entered the user message of the call
\* is in the message table, and it is still there when the call is cut
\* short by a crash at any later step.
C3_UserMessageBeforeCompletion ==
    /\ [](\A p \in Procs : (Sending(p) /\ pc[p] \in AfterUserCommit) => UserMessageStored(p))
    /\ [][\A p \in Procs :
            (Sending(p) /\ pc[p] \in AfterUserCommit /\ pc'[p] = "idle")
                => loc[p].user_message \in messages']_vars

\* C3 witness: the completion service has been called and has not answered;
\* the user message is stored.
C3_Witness ==
    \E p \in Procs :
        /\ pc[p] = "send_await" /\ loc[p].calls = 1
        /\ UserMessageStored(p)

\* C4: a send_message call ends in an error only when validation fails, and
\* then with NotFound and nothing written.  A call that passed validation
\* returns 200 with both messages stored; without a client the assistant
\* message is the demo reply, and after a service error it is the apology
\* holding the error's text.
C4_CompletionTroubleAbsorbed ==
    \A p \in Procs :
        (pc[p] = "done" /\ Sending(p)) =>
            LET l == loc[p] IN
            /\ l.result.status \in {200, 404}
            /\ l.result.status = 404 =>
                  /\ l.target \in {"foreign", "missing"}
                  /\ l.result = NotFound
                  /\ l.user_message = NoMsg /\ l.calls = 0
            /\ l.target = "owned" =>
                  /\ l.result.status = 200
                  /\ l.result.body.user_message \in messages
                  /\ l.result.body.assistant_message \in messages
                  /\ l.result.body.assistant_message.role = "assistant"
                  /\ l.result.body.assistant_message.content = l.assistant_response
                  /\ ~claude_client =>
                        /\ l.outcome = "demo" /\ l.calls = 0
                        /\ l.assistant_response = DemoReply(l.content)
                        /\ Contains(l.assistant_response, "[Demo mode")
                  /\ claude_client => l.outcome \in {"ok", "error"} /\ l.calls = 1
                  /\ l.outcome = "error" =>
                        /\ l.error \in ServiceErrors
                        /\ Contains(l.assistant_response, "I apologize")
                        /\ Contains(l.assistant_response, l.error)

\* C4 witness: a call has returned 200 after the service raised an error.
C4_Witness ==
    \E p \in Procs :
        /\ pc[p] = "done" /\ Sending(p)
        /\ loc[p].outcome = "error" /\ loc[p].result.status = 200
        /\ loc[p].result.body.assistant_message \in messages

\* C5: in every state of the tables the number of committed writes of a
\* conversation's updated_at equals the number of its assistant messages.
C5_BumpWithAssistant ==
    \A c \in ConvIds : bumps[c] = Cardinality(AsstMsgs(c))

\* C5 witness: a crash between the two commits of a second turn: one
\* assistant message, one write of updated_at, two user messages.
C5_Witness ==
    /\ AllIdle
    /\ \E c \in conversations :
        /\ bumps[c.id] = 1
        /\ Cardinality(AsstMsgs(c.id)) = 1
        /\ Cardinality(UserMsgs(c.id)) = 2
        /\ c.updated_at > c.created_at

\* C6: the history read by a call holds rows of the conversation that were
\* stored before the call, never the call's own user message, and what is
\* sent to the completion service is that history followed by the new
\* message, once.
C6_HistoryThenNewMessage ==
    \A p \in Procs :
        (Sending(p) /\ pc[p] \in (AfterUserCommit \cup {"done"}) /\ loc[p].target = "owned") =>
            LET l == loc[p]
                n == Len(l.history)
            IN /\ l.history = RoleContent(l.hist_rows)
               /\ \A i \in 1..n :
                     /\ l.hist_rows[i] \in l.pre_msgs
                     /\ l.hist_rows[i].id # l.user_message.id
               /\ l.calls >= 1 =>
                     /\ Len(l.full_messages) = n + 1
                     /\ SubSeq(l.full_messages, 1, n) = l.history
                     /\ l.full_messages[n + 1] = [role |-> "user", content |-> l.content]

\* C6 witness: the service has been called in a second turn with the two
\* messages of the first turn as history.
C6_Witness ==
    \E p \in Procs :
        /\ pc[p] = "send_await" /\ loc[p].calls = 1
        /\ Len(loc[p].history) = 2
        /\ Len(loc[p].full_messages) = 3

Elements(seq) == {seq[i] : i \in 1..Len(seq)}

\* What C7 says of a returned history: rows are the returned rows of
\* conversation cid, limit the limit the call was given.
HistoryWindow(cid, limit, rows, pairs) ==
    LET S == ConvMsgs(cid)
        N == Cardinality(S)
        lim == IF limit = NoneInt THEN max_history ELSE limit
    IN /\ Len(rows) = Min2(N, lim)
       /\ Elements(rows) \subseteq S
       /\ Cardinality(Elements(rows)) = Len(rows)
       /\ \A i, j \in 1..Len(rows) : i < j => rows[i].created_at <= rows[j].created_at
       /\ \A m \in S \ Elements(rows) : \A r \in Elements(rows) : m.created_at <= r.created_at
       /\ Len(pairs) = Len(rows)
       /\ \A i \in 1..Len(rows) :
             pairs[i] = [role |-> rows[i].role, content |-> rows[i].content]

HistoryCallDone(p) == pc[p] = "done" /\ loc[p].op = "get_conversation_history"

\* C7: get_conversation_history(C, limit) returns min(N, limit) role/content
\* pairs, those of the most recently created messages of C, oldest first;
\* without a limit the configured maximum is the limit.
C7_HistoryWindow ==
    \A p \in Procs :
        HistoryCallDone(p) =>
            HistoryWindow(loc[p].conversation_id, loc[p].limit, loc[p].rows, loc[p].result.body)

\* C7 lemma: the statement holds of every call whose limit is not 0.
C7_HistoryWindowNonZero ==
    \A p \in Procs :
        (HistoryCallDone(p) /\ loc[p].limit # 0) =>
            HistoryWindow(loc[p].conversation_id, loc[p].limit, loc[p].rows, loc[p].result.body)

\* The conversation a finished request asked for did not exist, or was
\* another user's.
AskedMissing(p) ==
    \/ loc[p].op \in {"get_conversation", "delete_conversation"} /\ loc[p].target = "missing"
    \/ Sending(p) /\ loc[p].requested # NoneInt /\ loc[p].asked = "missing"

AskedForeign(p) ==
    \/ loc[p].op \in {"get_conversation", "delete_conversation"} /\ loc[p].target = "foreign"
    \/ Sending(p) /\ loc[p].requested # NoneInt /\ loc[p].asked = "foreign"

\* C8: get_conversation, delete_conversation, send_message and quick_message
\* with an id answer a request for another user's conversation and a request
\* for a conversation id that does not exist with the same NotFound result.
C8_UniformNotFound ==
    \A p \in Procs :
        (pc[p] = "done" /\ (AskedMissing(p) \/ AskedForeign(p))) => loc[p].result = NotFound

\* C8 lemma: the statement holds of every request whose conversation id is
\* not 0.
C8_UniformNotFoundNonZero ==
    \A p \in Procs :
        (pc[p] = "done" /\ (AskedMissing(p) \/ AskedForeign(p)) /\ loc[p].conversation_id # 0
            /\ (Sending(p) => loc[p].requested # 0))
            => loc[p].result = NotFound

\* C9: when delete_conversation has succeeded the tables hold no
\* conversation with the id and no message of it; in no state of the tables,
\* a crash in the middle of a delete included, is there a message whose
\* conversation is gone.
C9_DeleteLeavesNothing ==
    /\ \A p \in Procs :
          (pc[p] = "done" /\ loc[p].op = "delete_conversation" /\ loc[p].target = "owned") =>
              /\ loc[p].result.status = 204
              /\ ~\E c \in conversations : c.id = loc[p].conversation_id
              /\ ConvMsgs(loc[p].conversation_id) = {}
    /\ \A m \in messages : \E c \in conversations : c.id = m.conversation_id

\* C9 witness: a conversation with three messages (a turn and the user
\* message of a turn cut short) has been deleted.
C9_Witness ==
    \E p \in Procs :
        /\ pc[p] = "done" /\ loc[p].op = "delete_conversation"
        /\ loc[p].result.status = 204
        /\ Cardinality(loc[p].messages) = 3
        /\ messages = {}

\* C10: when update_profile returns, the caller's one profile holds the
\* payload's value in every field of the payload and the value it had before
\* in every other field, and its updated_at is the reading of the clock the
\* call took, not before the previous updated_at; so also for the empty
\* payload.
C10_SparseMerge ==
    \A p \in Procs :
        (pc[p] = "done" /\ loc[p].op = "update_profile") =>
            LET l == loc[p]
                mine == {q \in profiles : q.user_id = l.user}
            IN /\ l.result.status = 200
               /\ Cardinality(mine) = 1
               /\ \A q \in mine :
                     /\ \A f \in ProfileFields :
                           q[f] = IF f \in DOMAIN l.payload THEN l.payload[f] ELSE l.before[f]
                     /\ q.updated_at = now
                     /\ q.updated_at >= l.before.updated_at
                     /\ l.had_profile => q.id = l.before.id
                     /\ l.result.body = q

\* C10 witness: a payload with phone alone has been applied to a profile
\* whose other fields were set; the clock had advanced.
C10_Witness ==
    \E p \in Procs :
        /\ pc[p] = "done" /\ loc[p].op = "update_profile"
        /\ DOMAIN loc[p].payload = {"phone"}
        /\ loc[p].before.display_name = "x" /\ loc[p].before.notes = "x"
        /\ loc[p].before.phone # loc[p].payload["phone"]
        /\ loc[p].result.body.updated_at > loc[p].before.updated_at

ProfilesOf(user) == {q \in profiles : q.user_id = user}

\* C11 lemma: no user has two profiles.
C11_AtMostOneProfile == \A u \in users : Cardinality(ProfilesOf(u.id)) <= 1

\* C11: whatever register, get_profile and update_profile calls have run or
\* are running, two interleaved first get_profile calls included, no user has
\* two profiles and every get_profile call that has returned has returned
\* the profile of its user.
C11_GetOrCreateIdempotent ==
    /\ C11_AtMostOneProfile
    /\ \A p \in Procs :
          (pc[p] = "done" /\ loc[p].op = "get_profile") =>
              /\ loc[p].result.status = 200
              /\ loc[p].result.body.user_id = loc[p].user
              /\ \E q \in ProfilesOf(loc[p].user) : q.id = loc[p].result.body.id

EmailInUse(email) == \E u \in users : u.email = email

\* C17: a registration that finds its email in use ends with the Conflict
\* error (HTTP 400, "Email already registered.") and writes no user and no
\* profile; and in every state, two registrations with the same email
\* interleaved included, no two users have the same email.
C17_DuplicateEmailConflict ==
    /\ [](/\ \A u, v \in users : u.email = v.email => u = v
          /\ \A p \in Procs :
                (pc[p] = "done" /\ loc[p].op = "register_user" /\ loc[p].existing) =>
                    loc[p].result = Conflict /\ loc[p].user = 0)
    /\ [][\A p \in Procs :
            (pc[p] = "reg_check" /\ pc'[p] \notin {"reg_check", "idle"}
                /\ EmailInUse(loc[p].email)) =>
                    /\ pc'[p] = "done"
                    /\ loc'[p].result = Conflict
                    /\ users' = users
                    /\ profiles' = profiles]_vars

\* C17 witness: a registration has ended with Conflict, and of two
\* interleaved registrations with the same email the second to commit has
\* been refused by the unique index.
C17_Witness ==
    \E p, q \in Procs :
        /\ p # q
        /\ pc[p] = "done" /\ loc[p].op = "register_user" /\ loc[p].result = Conflict
        /\ pc[q] = "done" /\ loc[q].op = "register_user" /\ loc[q].email = loc[p].email
        /\ loc[q].result.detail = "IntegrityError"

LoginDone(p) == pc[p] = "done" /\ loc[p].op = "login"
BadCredentials(p) ==
    ~loc[p].found \/ ~verify_password(loc[p].password, loc[p].user.hashed_password)
Disabled(p) == loc[p].found /\ ~loc[p].user.is_active
HasToken(p) == loc[p].result.status = 200

\* C18: login ends with the Unauthorized error, and with no token, when the
\* email is unknown, when the password is wrong and when the account is
\* disabled.
C18_LoginUnauthorized ==
    \A p \in Procs :
        (LoginDone(p) /\ (BadCredentials(p) \/ Disabled(p))) =>
            loc[p].result = Unauthorized /\ ~HasToken(p)

\* C18 as the code has it: an unknown email and a wrong password end with
\* Unauthorized (401); a disabled account whose credentials are right ends
\* with Forbidden (403); no token is issued in any of these cases, and a
\* token is issued in every other.
C18_LoginUnauthorizedOrForbidden ==
    \A p \in Procs :
        LoginDone(p) =>
            /\ BadCredentials(p) => loc[p].result = Unauthorized
            /\ (~BadCredentials(p) /\ Disabled(p)) => loc[p].result = Forbidden
            /\ (BadCredentials(p) \/ Disabled(p)) => ~HasToken(p)
            /\ (~BadCredentials(p) /\ ~Disabled(p)) =>
                  /\ HasToken(p)
                  /\ loc[p].result.body.access_token = create_access_token(loc[p].email)

\* C18 witness: the three cases have happened: a login with an unknown
\* email or a wrong password has ended with 401 and a login to the disabled
\* account with its password has ended with 403.
C18_Witness ==
    \E p, q \in Procs :
        /\ LoginDone(p) /\ BadCredentials(p) /\ loc[p].result.status = 401
        /\ LoginDone(q) /\ ~BadCredentials(q) /\ Disabled(q) /\ loc[q].result.status = 403

QuickDone(p) == pc[p] = "done" /\ loc[p].op = "quick_message"

\* The title C13 gives a conversation created for a message.
TitleFor(content) ==
    IF Len(content) <= 50 THEN content
    ELSE SubSeq(content, 1, 50) \o "..."

\* What C13 says of a finished quick_message call without a conversation id.
QuickCreated(p) ==
    LET l == loc[p] IN
    /\ l.result.status = 200
    /\ Titles = l.pre_titles \cup
                   {[id |-> l.created, user_id |-> l.user, title |-> TitleFor(l.content)]}
    /\ Cardinality(Titles) = Cardinality(l.pre_titles) + 1
    /\ l.result.body.conversation_id = l.created
    /\ l.result.body.user_message \in ConvMsgs(l.created)
    /\ l.result.body.user_message.content = l.content
    /\ l.result.body.assistant_message \in ConvMsgs(l.created)
    /\ Cardinality(ConvMsgs(l.created)) = 2

\* What C13 says of a finished quick_message call with a conversation id.
QuickCreatedNothing(p) == Titles = loc[p].pre_titles /\ loc[p].created = 0

\* C13: quick_message without a conversation id creates exactly one
\* conversation, the caller's, titled with the content when that has at most
\* 50 characters and else with its first 50 characters and the marker "...",
\* and runs send_message on it; with a conversation id it creates no
\* conversation and changes no title.
C13_QuickMessage ==
    \A p \in Procs :
        QuickDone(p) =>
            IF loc[p].requested = NoneInt THEN QuickCreated(p) ELSE QuickCreatedNothing(p)

\* C13 lemma: the statement holds of every call whose conversation id is
\* absent or not 0.
C13_QuickMessageNonZero ==
    \A p \in Procs :
        (QuickDone(p) /\ loc[p].requested # 0) =>
            IF loc[p].requested = NoneInt THEN QuickCreated(p) ELSE QuickCreatedNothing(p)

SendDone(p) == pc[p] = "done" /\ Sending(p) /\ loc[p].target = "owned"

\* The messages and the timestamp write of every returned call are in the
\* tables.
NothingLost ==
    \A p \in Procs :
        SendDone(p) =>
            /\ loc[p].result.status = 200
            /\ loc[p].result.body.user_message \in ConvMsgs(loc[p].conversation_id)
            /\ loc[p].result.body.assistant_message \in ConvMsgs(loc[p].conversation_id)
            /\ bumps[loc[p].conversation_id] >= loc[p].pre_bumps + 1
            /\ \A q \in Procs \ {p} :
                  (SendDone(q) /\ loc[q].conversation_id = loc[p].conversation_id) =>
                      /\ loc[q].result.body.user_message # loc[p].result.body.user_message
                      /\ loc[q].result.body.assistant_message # loc[p].result.body.assistant_message
                      /\ bumps[loc[p].conversation_id] >= Min2(loc[p].pre_bumps, loc[q].pre_bumps) + 2

\* C12 lemma: no message and no timestamp write of interleaved calls is lost.
C12_NothingLost == NothingLost

\* C12: when send_message calls on one conversation interleave, from each
\* committed state to the next the conversation's updated_at does not
\* decrease, and the messages and the timestamp write of each call are in
\* the tables when it has returned.
C12_InterleavedSendsSerial ==
    /\ []NothingLost
    /\ [][\A c \in conversations : \A d \in conversations' :
            d.id = c.id => d.updated_at >= c.updated_at]_vars

\* The conversation a message refers to exists and has exactly one owner
\* among the users.
HasOwnedConversation(m) ==
    \E c \in conversations :
        /\ c.id = m.conversation_id
        /\ Cardinality({u \in users : u.id = c.user_id}) = 1

\* C14: in every state every message's conversation_id refers to an
\* existing conversation, which has exactly one owning user, also when
\* delete_conversation interleaves with a send_message in flight on the
\* same conversation.
C14_MessageHasConversation == \A m \in messages : HasOwnedConversation(m)

\* C16: in every state every conversation has updated_at >= created_at,
\* from its creation through every sequence of send_message calls.
C16_UpdatedNotBeforeCreated ==
    \A c \in conversations : c.updated_at >= c.created_at

\* s is an initial part of t.
IsPrefix(s, t) == Len(s) <= Len(t) /\ SubSeq(t, 1, Len(s)) = s

\* The order of the steps as C19 has it.
StatedOrder ==
    <<"Validate", "PersistUserMessage", "AssembleContext", "InvokeCompletion",
      "PersistAssistantMessage", "UpdateConversationTimestamp", "Commit">>

\* The order of the steps in chat.py 210-258.
CodeOrder ==
    <<"Validate", "AssembleContext", "PersistUserMessage", "InvokeCompletion",
      "PersistAssistantMessage", "UpdateConversationTimestamp", "Commit">>

\* C19: each send_message call performs its steps in the order Validate,
\* PersistUserMessage, AssembleContext, InvokeCompletion,
\* PersistAssistantMessage, UpdateConversationTimestamp, Commit, each step
\* begun after the one before it.
C19_StepOrder ==
    \A p \in Procs : (pc[p] # "idle" /\ Sending(p)) => IsPrefix(loc[p].steps, StatedOrder)

\* C19 as the code has it: the context (system prompt and history) is
\* assembled before the user message is stored: Validate, AssembleContext,
\* PersistUserMessage, InvokeCompletion, PersistAssistantMessage,
\* UpdateConversationTimestamp, Commit.  The history is read while the new
\* message is not in the table; a call that has returned 200 has made all
\* seven steps.
C19_StepOrderContextFirst ==
    \A p \in Procs :
        (pc[p] # "idle" /\ Sending(p)) =>
            /\ IsPrefix(loc[p].steps, CodeOrder)
            /\ pc[p] = "send_new_user" =>
                  /\ loc[p].steps = SubSeq(CodeOrder, 1, 2)
                  /\ loc[p].user_message = NoMsg
            /\ (pc[p] = "done" /\ loc[p].result.status = 200) => loc[p].steps = CodeOrder

\* C19 witness: a call has returned 200 after its seven steps, the
\* completion service having been called.
C19_Witness ==
    \E p \in Procs :
        /\ pc[p] = "done" /\ Sending(p) /\ loc[p].result.status = 200
        /\ loc[p].steps = CodeOrder
        /\ loc[p].calls = 1

\* The call of p has passed validation.
Validated(p) == Sending(p) /\ pc[p] = "send_context"

\* The call of p has returned its two messages, both stored.
Completed(p) ==
    /\ pc[p] = "done" /\ Sending(p)
    /\ loc[p].result.status = 200
    /\ loc[p].result.body.user_message \in messages
    /\ loc[p].result.body.user_message.role = "user"
    /\ loc[p].result.body.assistant_message \in messages
    /\ loc[p].result.body.assistant_message.role = "assistant"
    /\ loc[p].steps[Len(loc[p].steps)] = "Commit"
    /\ OwnedConversation(loc[p].conversation_id, loc[p].user) # {}

TitleAndTime(c) == [id |-> c.id, title |-> c.title, updated_at |-> c.updated_at]

\* The step is one of process p's handler, an operation of kind ops on a
\* conversation: every other conversation keeps its messages, its title
\* and its updated_at.
LeavesOthers(p, ops) ==
    (pc'[p] # pc[p] /\ pc[p] # "idle" /\ loc[p].op \in ops) =>
        \A c \in conversations :
            c.id # loc[p].conversation_id =>
                /\ \E d \in conversations' : TitleAndTime(d) = TitleAndTime(c)
                /\ {m \in messages' : m.conversation_id = c.id} = ConvMsgs(c.id)

\* Two calls on different conversations have returned and the
\* conversations are still there: the messages of each are in its own
\* conversation.
TurnsApart ==
    \A p, q \in Procs :
        (SendDone(p) /\ SendDone(q)
            /\ loc[p].conversation_id # loc[q].conversation_id
            /\ loc[p].result.status = 200
            /\ OwnedConversation(loc[p].conversation_id, loc[p].user) # {}) =>
                /\ loc[p].result.body.user_message \in ConvMsgs(loc[p].conversation_id)
                /\ loc[p].result.body.assistant_message \in ConvMsgs(loc[p].conversation_id)

\* C15 lemma: no step of a send_message call on a conversation changes the
\* messages, the title or the updated_at of another conversation.
C15_SendLeavesOthers == [][\A p \in Procs : LeavesOthers(p, {"send_message"})]_vars

\* C15: turns on different conversations are independent: no step of a
\* send_message or a delete_conversation on a conversation changes the
\* messages, the title or the updated_at of another conversation, and turns
\* on two conversations that interleave leave the messages of each in its
\* own conversation, as one after the other would.
C15_TurnsIndependent ==
    /\ []TurnsApart
    /\ [][\A p \in Procs : LeavesOthers(p, {"send_message", "delete_conversation"})]_vars

\* The total order of C21: by created_at, rows of equal created_at by id.
Before(a, b) ==
    \/ a.created_at < b.created_at
    \/ a.created_at = b.created_at /\ a.id < b.id

GetDone(p) == pc[p] = "done" /\ loc[p].op = "get_conversation" /\ loc[p].result.status = 200

\* rows are all the messages of conversation cid, each once.
AllMessagesOnce(cid, rows) ==
    /\ Elements(rows) = ConvMsgs(cid)
    /\ Len(rows) = Cardinality(ConvMsgs(cid))

\* C21 lemma: get_conversation returns all the messages of the
\* conversation, each once, with created_at never decreasing, and
\* get_conversation_history returns rows with created_at never decreasing,
\* none of them created before a row it leaves out.
C21_TimestampOrder ==
    \A p \in Procs :
        /\ GetDone(p) =>
              LET rows == loc[p].result.body.messages IN
              /\ AllMessagesOnce(loc[p].conversation_id, rows)
              /\ \A i, j \in 1..Len(rows) : i < j => rows[i].created_at <= rows[j].created_at
        /\ HistoryCallDone(p) =>
              LET rows == loc[p].rows IN
              /\ \A i, j \in 1..Len(rows) : i < j => rows[i].created_at <= rows[j].created_at
              /\ \A m \in ConvMsgs(loc[p].conversation_id) \ Elements(rows) :
                    \A r \in Elements(rows) : m.created_at <= r.created_at

\* C21: get_conversation returns all the messages of the conversation in
\* the order of created_at, messages of equal created_at in the order of
\* their ids, so that the user message of a turn comes before its assistant
\* message; get_conversation_history orders its rows by the same total
\* order and leaves out only rows that come before all it returns.
C21_TotalOrder ==
    \A p \in Procs :
        /\ GetDone(p) =>
              LET rows == loc[p].result.body.messages IN
              /\ AllMessagesOnce(loc[p].conversation_id, rows)
              /\ \A i, j \in 1..Len(rows) : i < j => Before(rows[i], rows[j])
        /\ HistoryCallDone(p) =>
              LET rows == loc[p].rows IN
              /\ \A i, j \in 1..Len(rows) : i < j => Before(rows[i], rows[j])
              /\ \A m \in ConvMsgs(loc[p].conversation_id) \ Elements(rows) :
                    \A r \in Elements(rows) : Before(m, r)

\* The assistant messages the call of p has added to its conversation.
AddedAsst(p) ==
    {m \in ConvMsgs(loc[p].conversation_id) \ loc[p].pre_msgs : m.role = "assistant"}

\* C22: a send_message call invokes the completion service at most once,
\* and not at all when the client is not configured; once the service has
\* raised, the call does not invoke it again, and it returns with exactly
\* one assistant message added, the apology.
C22_AtMostOneInvocation ==
    /\ [](\A p \in Procs :
            (Sending(p) /\ pc[p] # "idle") =>
                /\ loc[p].calls <= 1
                /\ ~claude_client => loc[p].calls = 0
                /\ pc[p] = "send_await" => loc[p].calls = 1
                /\ loc[p].outcome \in {"ok", "error"} => loc[p].calls = 1
                /\ (pc[p] = "done" /\ loc[p].outcome = "error") =>
                      /\ AddedAsst(p) = {loc[p].assistant_message}
                      /\ loc[p].assistant_message.content = ApologyReply(loc[p].error))
    /\ [][\A p \in Procs :
            (Sending(p) /\ pc[p] # "idle" /\ loc[p].outcome = "error" /\ pc'[p] # "idle") =>
                /\ loc'[p].calls = loc[p].calls
                /\ pc'[p] \notin {"send_call", "send_await"}]_vars

\* C22 witness: the service was invoked once and raised; the call has
\* returned with one assistant message added.
C22_Witness ==
    \E p \in Procs :
        /\ pc[p] = "done" /\ Sending(p)
        /\ loc[p].outcome = "error" /\ loc[p].calls = 1
        /\ Cardinality(AddedAsst(p)) = 1

\* The roles of seq alternate, beginning with "user".
Alternates(seq) ==
    \A i \in 1..Len(seq) : seq[i].role = IF i % 2 = 1 THEN "user" ELSE "assistant"

\* The stored messages of conversation cid, in the order they were stored,
\* alternate, beginning with "user".
TranscriptAlternates(cid) ==
    \A m \in ConvMsgs(cid) :
        m.role = IF Cardinality({x \in ConvMsgs(cid) : x.id <= m.id}) % 2 = 1
                 THEN "user" ELSE "assistant"

\* The list the call of p has handed to the completion service.
Handed(p) == Sending(p) /\ pc[p] # "idle" /\ loc[p].calls >= 1

\* The history the call of p has read is in the total order of C21 and
\* leaves out only rows that come before all its rows.
ReadInTotalOrder(p) ==
    LET rows == loc[p].hist_rows IN
    /\ \A i, j \in 1..Len(rows) : i < j => Before(rows[i], rows[j])
    /\ \A m \in loc[p].pre_msgs \ Elements(rows) : \A r \in Elements(rows) : Before(m, r)

\* C23 lemma: with an even history limit and turns one at a time the stored
\* transcript alternates, and whenever the database has returned the
\* history in the total order of C21 the list handed to the completion
\* service begins with a user turn, alternates and ends with the new
\* message.
C23_AlternationInTotalOrder ==
    /\ \A c \in conversations : TranscriptAlternates(c.id)
    /\ \A p \in Procs :
          (Handed(p) /\ ReadInTotalOrder(p)) =>
              LET l == loc[p].full_messages IN
              /\ Alternates(l)
              /\ Len(l) % 2 = 1
              /\ l[Len(l)] = [role |-> "user", content |-> loc[p].content]

\* C23: with an even history limit and turns one at a time the stored
\* transcript alternates user, assistant, and the list handed to the
\* completion service in every turn begins with a user turn, alternates and
\* ends with the new user message, for every number of prior turns.
C23_Alternation ==
    /\ \A c \in conversations : TranscriptAlternates(c.id)
    /\ \A p \in Procs :
          Handed(p) =>
              LET l == loc[p].full_messages IN
              /\ Alternates(l)
              /\ Len(l) % 2 = 1
              /\ l[Len(l)] = [role |-> "user", content |-> loc[p].content]

====
